---- MODULE Spec2Model ----
(***************************************************************************)
(* Model of the EmailSender reminder service (src/unnamed/part_000):       *)
(* the rate-limit middleware and the POST /send-reminder route behind it,  *)
(* the Bull queue 'email-reminders' with                                   *)
(* the job options the program passes to it, the queue's processing        *)
(* callback, EmailService.sendEmail with its Redis quota counters and the  *)
(* daily reset timer.  The Redis store is durable and outlives the         *)
(* process; the process can crash and restart, the store can be            *)
(* unreachable for a while, and every external send can succeed or fail.   *)
(*                                                                         *)
(* Queue state names: "delayed" is the spec's Waiting, "wait" is Ready,    *)
(* "active" is Active, "completed" is Completed (the job hash is removed,  *)
(* removeOnComplete: true) and "failed" is FailedTerminal.                 *)
(***************************************************************************)
EXTENDS Integers, Naturals, Sequences, FiniteSets, TLC

(* ---------------- bounds of the model ---------------- *)
MaxJobs == 2
\* environment events of one behaviour: requests, clock advances, crashes
\* and store outages
MaxEvents == 3

(* ---------------- program constants ---------------- *)
Attempts == 3
BackoffDelay == 3000
DayMs == 86400000
SendGridLimit == 300
DailyLimit == 500
Concurrency == 1
MaxStalledCount == 1
MaxGmail == 3
HourMs == 3600000
RateLimit == 7
ExpireSeconds == 3600
RemoveOnFail == 100

JobIds == 1..MaxJobs
Slots_Two == 1..(Concurrency + 1)

Slots == 1..Concurrency
\* the gmailAccounts literal has MaxGmail entries; the configured ones remain
GmailIdx == 0..(MaxGmail - 1)
\* channel 0 is SendGrid, channel k is Gmail account k-1
Channels == 0..MaxGmail
Payloads == {"p1", "p2"}
\* req.ip of the clients
Clients == {"a", "b"}

(* ---------------- JavaScript numbers ---------------- *)
\* a JS number is a finite integer or NaN
Num(n) == [nan |-> FALSE, v |-> n]
NaN == [nan |-> TRUE, v |-> 0]
\* req.body.timeInDays: absent (undefined) or a number
Undefined == [present |-> FALSE, v |-> 0]
Given(n) == [present |-> TRUE, v |-> n]
TimeInDaysValues == {Undefined, Given(0), Given(1)}

\* timeInDays*24*60*60*1000 ; undefined * n is NaN
DelayOf(timeInDays) ==
  IF timeInDays.present THEN Num(timeInDays.v * DayMs) ELSE NaN

\* a JS number used as a condition: 0 and NaN are falsy
Truthy(x) == ~x.nan /\ x.v # 0

(* ---------------- Redis string counters ---------------- *)
\* a key is absent (<<>>) or holds an integer (<<n>>)
Absent == <<>>
\* parseInt(count) || 0
ParseCount_One(val) == IF val = Absent THEN 1 ELSE val[1]

ParseCount(val) == IF val = Absent THEN 0 ELSE val[1]
\* INCR
Incr_Twice(val) == IF val = Absent THEN <<2>> ELSE <<val[1] + 2>>

Incr(val) == IF val = Absent THEN <<1>> ELSE <<val[1] + 1>>

\* await redis.incr(key) while another increment of the key may be under
\* way (overlapping): the store executes INCR as one command
AtomicIncr_ReadThenWrite(val, overlapping) ==
  IF overlapping THEN val ELSE Incr(val)

AtomicIncr(val, overlapping) == Incr(val)

VARIABLES
  now,               \* Date.now(), ms
  events,            \* number of environment events so far
  procUp,            \* the node process is running
  storeUp,           \* Redis is reachable
  jobs,              \* the queue's jobs in Redis, by job id
  worker,            \* the processing callback of each concurrency slot
  sendgrid_count,    \* Redis key sendgrid_count
  gmail_count,       \* Redis keys gmail_count_<i>
  currentGmailIndex, \* EmailService.currentGmailIndex
  numGmail,          \* gmailAccounts.length, the configured Gmail accounts
  nextReset,         \* time at which the setInterval of resetCountsDaily fires
  resetPc,           \* position of the reset callback: -1 idle, i next gmail key
  lastResponse,      \* the last HTTP response of POST /send-reminder
  rl,                \* Redis keys ratelimit:<ip>:<hour>
  other,             \* per channel, the sends another process instance on
                     \* the same store has made and not yet charged
  req,               \* the request that is inside the middleware chain
  failedSet,         \* the queue's failed set in Redis: the finish ranks of
                     \* the terminally failed jobs it retains
  statusRes,         \* the last HTTP response of the status endpoint
  boot,              \* the environment of the process and how far its
                     \* start-up has come
  peer,              \* a second request inside the middleware chain, suspended
                     \* at an await while the event loop runs req
  hist               \* history: what has happened so far

vars == <<now, events, procUp, storeUp, jobs, worker,
          sendgrid_count, gmail_count, currentGmailIndex, numGmail, nextReset,
          failedSet, statusRes, boot, peer,
          resetPc, lastResponse, rl, other, req, hist>>

NoJob == [state |-> "none", timestamp |-> 0, delay |-> Num(0), until |-> 0,
          attemptsMade |-> 0, stalledCounter |-> 0, lock |-> FALSE,
          timeInDays |-> Given(0), data |-> "p1"]

IdleWorker == [job |-> 0, pc |-> "idle", i |-> 0, idx |-> 0, cnt |-> 0,
               accepted |-> FALSE, err |-> "none"]

\* ttl: the seconds the 429 response reports; ord: the request's ordinal;
\* valid: the body the route answered had email, problemLink and problemName
NoResponse == [status |-> 0, jobId |-> 0, ttl |-> 0, ord |-> 0,
               valid |-> TRUE]

\* n: the value INCR returned; ord: the request is the ord-th of its client
\* in its hour bucket; caught: the catch of the middleware ran
NoReq == [pc |-> "none", client |-> "a", hour |-> 0, n |-> 0, ord |-> 0,
          caught |-> FALSE]

(* ---------------- start-up of the process ---------------- *)
\* the variables of process.env the module reads; "NODE_ENV" in an
\* environment stands for NODE_ENV=production, any other name for a
\* non-empty value of that variable
GmailUserVar == <<"GMAIL_USER_1", "GMAIL_USER_2", "GMAIL_USER_3">>
GmailPassVar == <<"GMAIL_APP_PASSWORD_1", "GMAIL_APP_PASSWORD_2",
                  "GMAIL_APP_PASSWORD_3">>

EnvNames ==
  {"SENDGRID_API_KEY", "EMAIL_FROM", "REDIS_URL", "UPSTASH_REDIS_URL",
   "NODE_ENV"}
    \cup {GmailUserVar[i + 1] : i \in GmailIdx}
    \cup {GmailPassVar[i + 1] : i \in GmailIdx}

\* the list `required` of validateEnvVariables
RequiredVars ==
  {"SENDGRID_API_KEY", "EMAIL_FROM", "GMAIL_USER_1", "GMAIL_APP_PASSWORD_1",
   "REDIS_URL"}

\* the variable both the Redis client and the queue are built from
StoreVar == "UPSTASH_REDIS_URL"

\* the values the module cannot work without: process.env is read for the
\* store (UPSTASH_REDIS_URL), for the SendGrid key in sendEmail and for the
\* Gmail accounts, of which the first is the fallback channel; EMAIL_FROM
\* and REDIS_URL are read by validateEnvVariables only
UsedVars ==
  {"SENDGRID_API_KEY", "GMAIL_USER_1", "GMAIL_APP_PASSWORD_1", StoreVar}

\* the entries of the gmailAccounts literal that pass the filter
ConfiguredAccounts(env) ==
  {i \in GmailIdx : GmailUserVar[i + 1] \in env /\ GmailPassVar[i + 1] \in env}

\* an environment with which the process starts and has n Gmail accounts
EnvOf(n) ==
  RequiredVars \cup {StoreVar}
    \cup {GmailUserVar[i + 1] : i \in 0..(n - 1)}
    \cup {GmailPassVar[i + 1] : i \in 0..(n - 1)}

\* the process has started and listens
Booted(n) == [env |-> EnvOf(n), pc |-> "listening"]

\* no request has reached the status endpoint
NoStatus == [n |-> 0, status |-> 0]

(* ---------------- rateLimitMiddleware ---------------- *)
\* a key ratelimit:<client>:<hour> holds a count; it expires at expireAt
\* when an expiry was set on it (ttlSet)
Key(c, h, n) ==
  [client |-> c, hour |-> h, count |-> n, ttlSet |-> FALSE, expireAt |-> 0]
KeyLive(k, t) == ~k.ttlSet \/ t < k.expireAt
KeysOf_AnyClient(c, h) == {k \in rl : k.hour = h}
KeysOf(c, h) == {k \in rl : k.client = c /\ k.hour = h}
CountOf(c, h) ==
  IF KeysOf(c, h) = {} THEN 0 ELSE (CHOOSE k \in KeysOf(c, h) : TRUE).count

\* redis.incr(key)
KeyIncr(c, h) ==
  IF KeysOf(c, h) = {}
    THEN rl \cup {Key(c, h, 1)}
    ELSE {IF k \in KeysOf(c, h) THEN [k EXCEPT !.count = @ + 1] ELSE k :
            k \in rl}

\* redis.expire(key, 3600)
KeyExpire(c, h) ==
  {IF k \in KeysOf(c, h)
     THEN [k EXCEPT !.ttlSet = TRUE, !.expireAt = now + ExpireSeconds * 1000]
     ELSE k : k \in rl}

\* redis.ttl(key): seconds left, -1 for a key without expiry, -2 for no key
KeyTtl(c, h) ==
  IF KeysOf(c, h) = {} THEN 0 - 2
  ELSE LET k == CHOOSE x \in KeysOf(c, h) : TRUE IN
       IF ~k.ttlSet THEN 0 - 1
       ELSE (k.expireAt - now + 500) \div 1000

\* Math.floor(Date.now() / 3600000)
CurrentHour_Fixed(t) == 0

CurrentHour(t) == t \div HourMs

\* if (requests > 7)
OverLimit_AtLimit(n) == n >= RateLimit

OverLimit(n) == n > RateLimit

\* catch (error) { console.error(...); next(); }
LimiterCatch_Deny(r) == [r EXCEPT !.pc = "ttl", !.caught = TRUE]

LimiterCatch(r) == [r EXCEPT !.pc = "route", !.caught = TRUE]

\* after the expire, or without it: deny above the limit, else next()
AfterExpire(r) ==
  IF OverLimit(r.n) THEN [r EXCEPT !.pc = "ttl"] ELSE [r EXCEPT !.pc = "route"]

\* if (requests === 1) await redis.expire(key, 3600)
AfterIncr(r) == IF r.n = 1 THEN [r EXCEPT !.pc = "expire"] ELSE AfterExpire(r)

\* the reply of redis.incr(key): the new value of the key, also while
\* another request of the same client is inside the chain
IncrResult_Stale(c, h, concurrent) ==
  IF concurrent THEN CountOf(c, h) ELSE CountOf(c, h) + 1

IncrResult(c, h, concurrent) == CountOf(c, h) + 1

\* the requests of client c that arrived in hour h so far
ArrivalsOf(c, h) ==
  LET as == {a \in hist.arrivals : a.client = c /\ a.hour = h} IN
  IF as = {} THEN 0 ELSE (CHOOSE a \in as : TRUE).k

\* a request of client c enters the middleware: the key is computed and
\* const requests = await redis.incr(key) is issued
RateLimitIncr(c) ==
  /\ procUp
  /\ req.pc = "none"
  /\ events < MaxEvents
  /\ events' = events + 1
  /\ LET ord == ArrivalsOf(c, now \div HourMs) + 1
         h == CurrentHour(now)
         r == [NoReq EXCEPT !.client = c, !.hour = h, !.ord = ord]
     IN /\ hist' = [hist EXCEPT !.arrivals =
                      {a \in @ : a.client # c}
                        \cup {[client |-> c, hour |-> now \div HourMs,
                               k |-> ord]}]
        /\ IF storeUp
             THEN /\ rl' = KeyIncr(c, h)
                  /\ req' = AfterIncr(
                              [r EXCEPT !.n =
                                 IncrResult(c, h, peer.pc # "none"
                                                    /\ peer.client = c)])
             ELSE /\ rl' = rl
                  /\ req' = LimiterCatch(r)
  /\ lastResponse' = NoResponse
  /\ UNCHANGED <<now, procUp, storeUp, jobs, worker, sendgrid_count,
                 gmail_count, currentGmailIndex, numGmail, other, failedSet,
                 statusRes, boot, peer, nextReset, resetPc>>

\* await redis.expire(key, 3600)
RateLimitExpire ==
  /\ procUp
  /\ req.pc = "expire"
  /\ IF storeUp
       THEN /\ rl' = KeyExpire(req.client, req.hour)
            /\ req' = AfterExpire(req)
       ELSE /\ rl' = rl
            /\ req' = LimiterCatch(req)
  /\ lastResponse' = NoResponse
  /\ UNCHANGED <<now, events, procUp, storeUp, jobs, worker, sendgrid_count,
                 gmail_count, currentGmailIndex, numGmail, other, failedSet,
                 statusRes, boot, peer, nextReset, resetPc,
                 hist>>

\* const ttl = await redis.ttl(key); return res.status(429).json({...})
RateLimitTtl ==
  /\ procUp
  /\ req.pc = "ttl"
  /\ IF storeUp
       THEN /\ lastResponse' = [NoResponse EXCEPT
                                !.status = 429,
                                !.ttl = KeyTtl(req.client, req.hour),
                                !.ord = req.ord]
            /\ req' = NoReq
       ELSE /\ lastResponse' = NoResponse
            /\ req' = LimiterCatch(req)
  /\ UNCHANGED <<now, events, procUp, storeUp, jobs, worker, sendgrid_count,
                 gmail_count, currentGmailIndex, numGmail, other, failedSet,
                 statusRes, boot, peer, nextReset, resetPc,
                 rl, hist>>

\* two requests are inside the chain: the one that ran has reached an await
\* (or has been answered) and the event loop resumes the other
SwitchRequest ==
  /\ procUp
  /\ peer.pc # "none" \/ req.pc # "none"
  /\ req' = peer
  /\ peer' = req
  /\ lastResponse' = NoResponse
  /\ UNCHANGED <<now, events, procUp, storeUp, jobs, worker, sendgrid_count,
                 gmail_count, currentGmailIndex, numGmail, other, failedSet,
                 statusRes, boot, nextReset, resetPc, rl, hist>>

\* no key, or client "a" has used up its hour
NoKeys == {}
BusyKeys ==
  {[Key("a", 0, RateLimit) EXCEPT !.ttlSet = TRUE,
                                  !.expireAt = ExpireSeconds * 1000]}

\* runs[j]: invocations of the callback for job j; sends[j]: accepted sends
\* of job j's message; uncharged[c]: accepted sends through channel c minus
\* increments of channel c's counter; sent[i]: accepted sends through Gmail
\* account i; arrivals: per client, the requests that arrived in the client's
\* latest hour bucket; others[c]: the sends another instance has made
\* through channel c; tested[c]: the accepted sends of the self-test
\* endpoint through channel c
InitHist == [runs |-> [j \in JobIds |-> 0],
             sends |-> [j \in JobIds |-> 0],
             uncharged |-> [c \in Channels |-> 0],
             sent |-> [i \in GmailIdx |-> 0],
             arrivals |-> {},
             overlapped |-> FALSE,
             others |-> [c \in Channels |-> 0],
             tested |-> [c \in Channels |-> 0],
             sendFailed |-> FALSE,
             allFailed |-> FALSE,
             crashed |-> FALSE,
             storeFailed |-> FALSE]

\* the store is durable: at process start the counters hold whatever earlier
\* days left in them
FreshCounts == [c \in Channels |-> Absent]
SpentCounts == [c \in Channels |->
                  IF c = 0 THEN <<SendGridLimit>> ELSE <<DailyLimit>>]

\* what Init shares between the specifications
InitProcess ==
  /\ now = 0
  /\ events = 0
  /\ procUp = TRUE
  /\ storeUp = TRUE
  /\ jobs = [j \in JobIds |-> NoJob]
  /\ worker = [w \in Slots |-> IdleWorker]
  /\ currentGmailIndex = 0
  /\ nextReset = DayMs
  /\ resetPc = -1
  /\ lastResponse = NoResponse
  /\ req = NoReq
  /\ other = [c \in Channels |-> 0]
  /\ failedSet = {}
  /\ statusRes = NoStatus
  /\ peer = NoReq

\* the rate-limit keys the store holds at process start, and the requests
\* that made them
InitKeys(ks) ==
  /\ rl = ks
  /\ hist = [InitHist EXCEPT !.arrivals =
               {[client |-> k.client, hour |-> k.hour, k |-> k.count] :
                  k \in ks}]

\* counters of the keys the configured channels use
InitCounts(n, c) ==
  /\ numGmail = n
  /\ boot = Booted(n)
  /\ sendgrid_count = c[0]
  /\ gmail_count = [i \in GmailIdx |-> IF i < n THEN c[i + 1] ELSE Absent]

\* one Gmail account configured; a store with fresh quota counters or with
\* every counter at its ceiling; client "a" has used up its hour, client "b"
\* has made no request
Init ==
  /\ InitProcess
  /\ \E c \in {FreshCounts, SpentCounts} : InitCounts(1, c)
  /\ InitKeys(BusyKeys)

(* ---------------- POST /send-reminder ---------------- *)
\* Bull assigns job ids in increasing order
FreeIds == {j \in JobIds : jobs[j].state = "none"}
NextJobId == CHOOSE j \in FreeIds : \A k \in FreeIds : j <= k

\* emailQueue.add(data, {delay, attempts: 3, removeOnComplete: true}): a job
\* with a truthy delay goes to the delayed set with score timestamp + delay,
\* any other job goes straight to the wait list
AddJob(timeInDays, data) ==
  LET d == DelayOf(timeInDays) IN
  [state |-> IF Truthy(d) THEN "delayed" ELSE "wait",
   timestamp |-> now,
   delay |-> d,
   until |-> IF Truthy(d) THEN now + d.v ELSE now,
   attemptsMade |-> 0,
   stalledCounter |-> 0,
   lock |-> FALSE,
   timeInDays |-> timeInDays,
   data |-> data]

\* the response of the route handler to the request in flight
Response_Delivery(status, jobId, valid) ==
  [NoResponse EXCEPT
     !.status = IF \E w \in Slots : worker[w].pc # "idle" THEN 500 ELSE status,
     !.jobId = jobId, !.ord = req.ord, !.valid = valid]

Response(status, jobId, valid) ==
  [NoResponse EXCEPT !.status = status, !.jobId = jobId, !.ord = req.ord,
                     !.valid = valid]

\* if (!(await checkRedisConnection())) 503; if (!email || !problemLink ||
\* !problemName) 400; else the job is added and the answer is 200
RouteOutcome_NoValidation(up, valid) == IF ~up THEN 503 ELSE 200

RouteOutcome_NoHealthCheck(up, valid) == IF ~valid THEN 400 ELSE 200

RouteOutcome(up, valid) == IF ~up THEN 503 ELSE IF ~valid THEN 400 ELSE 200

\* the route handler, reached through next(): health check, validation,
\* enqueue, response
SendReminder(valid, timeInDays, data) ==
  /\ procUp
  /\ req.pc = "route"
  /\ LET status == RouteOutcome(storeUp, valid) IN
       IF status = 200
         THEN /\ FreeIds # {}
              /\ jobs' = [jobs EXCEPT ![NextJobId] = AddJob(timeInDays, data)]
              /\ lastResponse' = Response(200, NextJobId, valid)
         ELSE /\ lastResponse' = Response(status, 0, valid)
              /\ UNCHANGED jobs
  /\ req' = NoReq
  /\ UNCHANGED <<now, events, procUp, storeUp, worker, sendgrid_count,
                 gmail_count, currentGmailIndex, numGmail, other, failedSet,
                 statusRes, boot, peer, nextReset, resetPc,
                 rl, hist>>

\* the store becomes unreachable after the health check and before the
\* enqueue: emailQueue.add rejects and the handler answers 500
SendReminderAddFails ==
  /\ procUp
  /\ req.pc = "route"
  /\ storeUp
  /\ storeUp' = FALSE
  /\ hist' = [hist EXCEPT !.storeFailed = TRUE]
  /\ lastResponse' = Response(500, 0, TRUE)
  /\ req' = NoReq
  /\ UNCHANGED <<now, events, procUp, jobs, worker, sendgrid_count,
                 gmail_count, currentGmailIndex, numGmail, other, failedSet,
                 statusRes, boot, peer, nextReset, resetPc,
                 rl>>

(* ---------------- the queue (Bull) ---------------- *)
\* a delayed job whose deadline has elapsed is moved to the wait list
Due_Always(job) == TRUE

Due(job) == job.until <= now

PromoteDelayed(j) ==
  /\ procUp
  /\ storeUp
  /\ jobs[j].state = "delayed"
  /\ Due(jobs[j])
  /\ jobs' = [jobs EXCEPT ![j].state = "wait"]
  /\ UNCHANGED <<now, events, procUp, storeUp, worker,
                 sendgrid_count, gmail_count, currentGmailIndex, numGmail, other, failedSet,
                 statusRes, boot, peer, nextReset,
                 resetPc, hist>>
  /\ lastResponse' = NoResponse
  /\ UNCHANGED <<rl, req>>

\* emailQueue.process(callback): a free concurrency slot takes a job from the
\* wait list, locks it and invokes the callback
WorkerIdle(w) == worker[w].pc = "idle"

\* the jobs a consumer takes are those of the wait list
Fetchable_Failed(job) == job.state \in {"wait", "failed"}

Fetchable(job) == job.state = "wait"

FetchJob(w, j) ==
  /\ procUp
  /\ storeUp
  /\ WorkerIdle(w)
  /\ Fetchable(jobs[j])
  /\ jobs' = [jobs EXCEPT ![j].state = "active", ![j].lock = TRUE]
  /\ worker' = [worker EXCEPT ![w] =
                  [IdleWorker EXCEPT !.job = j, !.pc = "getSendGridCount"]]
  /\ hist' = [hist EXCEPT !.runs[j] = @ + 1]
  /\ UNCHANGED <<now, events, procUp, storeUp,
                 sendgrid_count, gmail_count, currentGmailIndex, numGmail, other, failedSet,
                 statusRes, boot, peer, nextReset,
                 resetPc>>
  /\ lastResponse' = NoResponse
  /\ UNCHANGED <<rl, req>>

\* the callback returned: the job is completed and removed; without the
\* store or without the job's lock the move fails and the job stays put
MoveToCompleted(w) ==
  /\ procUp
  /\ worker[w].pc = "returned"
  /\ LET j == worker[w].job IN
       IF storeUp /\ jobs[j].state = "active" /\ jobs[j].lock
         THEN jobs' = [jobs EXCEPT ![j].state = "completed",
                                   ![j].lock = FALSE]
         ELSE UNCHANGED jobs
  /\ worker' = [worker EXCEPT ![w] = IdleWorker]
  /\ UNCHANGED <<now, events, procUp, storeUp,
                 sendgrid_count, gmail_count, currentGmailIndex, numGmail, other, failedSet,
                 statusRes, boot, peer, nextReset,
                 resetPc, hist>>
  /\ lastResponse' = NoResponse
  /\ UNCHANGED <<rl, req>>

\* defaultJobOptions removeOnFail: 100: a job that enters the failed set gets
\* the next finish rank, and the set is trimmed to the RemoveOnFail jobs
\* that finished last
NextRank(set) ==
  IF set = {} THEN 1 ELSE (CHOOSE r \in set : \A q \in set : q <= r) + 1

KeepFailed_All(set) == set

KeepFailed(set) ==
  {r \in set : Cardinality({q \in set : q > r}) < RemoveOnFail}

FailedSetAfter(job, set) ==
  IF job.state = "failed" THEN KeepFailed(set \cup {NextRank(set)}) ELSE set

\* job options attempts: 3 and backoff {type: 'fixed', delay: 3000}: a failed
\* attempt is counted; below 3 attempts the job is delayed by the backoff,
\* otherwise it is moved to the failed set
FailedJob_Swallowed(job) == [job EXCEPT !.state = "completed", !.lock = FALSE]

FailedJob_OneMore(job) ==
  LET made == job.attemptsMade + 1 IN
  IF made <= Attempts
    THEN [job EXCEPT !.attemptsMade = made, !.state = "delayed",
                     !.until = now + BackoffDelay, !.lock = FALSE]
    ELSE [job EXCEPT !.attemptsMade = made, !.state = "failed",
                     !.lock = FALSE]

FailedJob_Growing(job) ==
  LET made == job.attemptsMade + 1 IN
  IF made < Attempts
    THEN [job EXCEPT !.attemptsMade = made, !.state = "delayed",
                     !.until = now + BackoffDelay * made, !.lock = FALSE]
    ELSE [job EXCEPT !.attemptsMade = made, !.state = "failed",
                     !.lock = FALSE]

FailedJob(job) ==
  LET made == job.attemptsMade + 1 IN
  IF made < Attempts
    THEN [job EXCEPT !.attemptsMade = made, !.state = "delayed",
                     !.until = now + BackoffDelay, !.lock = FALSE]
    ELSE [job EXCEPT !.attemptsMade = made, !.state = "failed",
                     !.lock = FALSE]

\* the callback threw (it rethrows every error of sendEmail)
MoveToFailed(w) ==
  /\ procUp
  /\ worker[w].pc = "threw"
  /\ LET j == worker[w].job IN
       IF storeUp /\ jobs[j].state = "active" /\ jobs[j].lock
         THEN /\ jobs' = [jobs EXCEPT ![j] = FailedJob(jobs[j])]
              /\ failedSet' = FailedSetAfter(FailedJob(jobs[j]), failedSet)
         ELSE UNCHANGED <<jobs, failedSet>>
  /\ worker' = [worker EXCEPT ![w] = IdleWorker]
  /\ UNCHANGED <<now, events, procUp, storeUp,
                 sendgrid_count, gmail_count, currentGmailIndex, numGmail, other,
                 statusRes, boot, peer, nextReset,
                 resetPc, hist>>
  /\ lastResponse' = NoResponse
  /\ UNCHANGED <<rl, req>>

\* the lock of an active job is renewed by the process that runs it, through
\* the store; when nobody renews it, it expires
LockExpire(j) ==
  /\ jobs[j].state = "active"
  /\ jobs[j].lock
  /\ \/ ~procUp
     \/ ~storeUp
     \/ \A w \in Slots : worker[w].job # j
  /\ jobs' = [jobs EXCEPT ![j].lock = FALSE]
  /\ UNCHANGED <<now, events, procUp, storeUp, worker,
                 sendgrid_count, gmail_count, currentGmailIndex, numGmail, other, failedSet,
                 statusRes, boot, peer, nextReset,
                 resetPc, hist>>
  /\ lastResponse' = NoResponse
  /\ UNCHANGED <<rl, req>>

\* the stalled-job check of the queue: an active job without a lock goes
\* back to the wait list, or to the failed set once it stalled more than
\* maxStalledCount times; attemptsMade is not touched
StalledJob_AsAttempt(job) ==
  LET made == job.attemptsMade + 1 IN
  IF made < Attempts
    THEN [job EXCEPT !.attemptsMade = made, !.state = "delayed",
                     !.until = now + BackoffDelay]
    ELSE [job EXCEPT !.attemptsMade = made, !.state = "failed"]

StalledJob_Left(job) == job

StalledJob(job) ==
  LET n == job.stalledCounter + 1 IN
  IF n > MaxStalledCount
    THEN [job EXCEPT !.stalledCounter = n, !.state = "failed"]
    ELSE [job EXCEPT !.stalledCounter = n, !.state = "wait"]

MoveStalledJobsToWait(j) ==
  /\ procUp
  /\ storeUp
  /\ jobs[j].state = "active"
  /\ ~jobs[j].lock
  /\ jobs' = [jobs EXCEPT ![j] = StalledJob(jobs[j])]
  /\ failedSet' = FailedSetAfter(StalledJob(jobs[j]), failedSet)
  /\ UNCHANGED <<now, events, procUp, storeUp, worker,
                 sendgrid_count, gmail_count, currentGmailIndex, numGmail, other,
                 statusRes, boot, peer, nextReset,
                 resetPc, hist>>
  /\ lastResponse' = NoResponse
  /\ UNCHANGED <<rl, req>>

(* ---------------- EmailService.sendEmail ---------------- *)
\* the callback of job j runs sendEmail; what it leaves alone
RouterFrame == UNCHANGED <<now, events, procUp, storeUp,
                           jobs, nextReset, resetPc>>
  /\ lastResponse' = NoResponse
  /\ UNCHANGED <<rl, req, failedSet, statusRes, boot, peer>>

\* head of the Gmail loop: for (i ...; i < gmailAccounts.length; ...) with
\* currentIndex = (currentGmailIndex + i) % gmailAccounts.length; after the
\* loop, throw new Error('All email services failed or reached their limits')
GmailLoop_NoThrow(wr, i) ==
  IF i < numGmail
    THEN [wr EXCEPT !.pc = "getGmailCount", !.i = i,
                    !.idx = (currentGmailIndex + i) % numGmail, !.cnt = 0]
    ELSE [wr EXCEPT !.pc = "returned", !.i = i, !.cnt = 0]

GmailLoop(wr, i) ==
  IF i < numGmail
    THEN [wr EXCEPT !.pc = "getGmailCount", !.i = i,
                    !.idx = (currentGmailIndex + i) % numGmail, !.cnt = 0]
    ELSE [wr EXCEPT !.pc = "threw", !.err = "allFailed", !.i = i, !.cnt = 0]

NoteAllFailed(h, wr) ==
  IF wr.pc = "threw" /\ wr.err = "allFailed"
    THEN [h EXCEPT !.allFailed = TRUE] ELSE h

\* the admission tests of the two kinds of channel
SendGridAdmits_AtLimit(count) == count <= SendGridLimit

SendGridAdmits(count) == count < SendGridLimit

GmailAdmits(count) == count < DailyLimit

\* try { await sgMail.send(msg); await this.incrementSendGridCount(); return; }
\* catch (error) { ... }: where control goes after the send settles
AfterSendGridSend_Charge(wr, ok) ==
  [wr EXCEPT !.pc = "incrementSendGridCount", !.accepted = ok, !.cnt = 0]

AfterSendGridSend(wr, ok) ==
  IF ok
    THEN [wr EXCEPT !.pc = "incrementSendGridCount", !.accepted = TRUE,
                    !.cnt = 0]
    ELSE GmailLoop(wr, 0)

\* where control goes after the INCR settles: return, or the catch
AfterSendGridIncrement_NoReturn(wr, ok) == GmailLoop(wr, 0)

AfterSendGridIncrement(wr, ok) ==
  IF ok THEN [wr EXCEPT !.pc = "returned"] ELSE GmailLoop(wr, 0)

\* const count = await redis.get(key) rejects: the read sits outside every
\* try of sendEmail, so the rejection leaves sendEmail as its error
ReadFailed_AsZero(wr) ==
  IF wr.pc = "getSendGridCount"
    THEN [wr EXCEPT !.pc = "sgSend", !.cnt = 0]
    ELSE [wr EXCEPT !.pc = "gmailSend", !.cnt = 0]

ReadFailed(wr) == [wr EXCEPT !.pc = "threw", !.err = "store"]

\* const sendGridCount = await this.getSendGridCount(); if (... < 300)
GetSendGridCount(w) ==
  /\ procUp
  /\ worker[w].pc = "getSendGridCount"
  /\ LET wr == worker[w]
         count == ParseCount(sendgrid_count)
         nwr == IF ~storeUp
                  THEN ReadFailed(wr)
                  ELSE IF SendGridAdmits(count)
                    THEN [wr EXCEPT !.pc = "sgSend", !.cnt = count]
                    ELSE GmailLoop(wr, 0)
     IN /\ worker' = [worker EXCEPT ![w] = nwr]
        /\ hist' = NoteAllFailed(hist, nwr)
  /\ UNCHANGED <<sendgrid_count, gmail_count, currentGmailIndex, numGmail, other>>
  /\ RouterFrame

\* await sgMail.send(msg): accepted, or rejected (caught, falls through)
SendGridSend(w, ok) ==
  /\ procUp
  /\ worker[w].pc = "sgSend"
  /\ LET wr == worker[w]
         nwr == AfterSendGridSend(wr, ok)
         h == IF ok
                THEN [hist EXCEPT !.uncharged[0] = @ + 1, !.sends[wr.job] = @ + 1]
                ELSE [hist EXCEPT !.sendFailed = TRUE]
     IN /\ worker' = [worker EXCEPT ![w] = nwr]
        /\ hist' = NoteAllFailed(h, nwr)
  /\ UNCHANGED <<sendgrid_count, gmail_count, currentGmailIndex, numGmail, other>>
  /\ RouterFrame

\* await this.incrementSendGridCount(); return;  -- inside the same try as
\* the send: a rejected INCR is caught and falls through to Gmail
IncrementSendGridCount(w) ==
  /\ procUp
  /\ worker[w].pc = "incrementSendGridCount"
  /\ LET wr == worker[w]
         nwr == AfterSendGridIncrement(wr, storeUp)
     IN /\ worker' = [worker EXCEPT ![w] = nwr]
        /\ sendgrid_count' = IF storeUp
                                THEN AtomicIncr(sendgrid_count, other[0] > 0)
                                ELSE sendgrid_count
        /\ hist' = NoteAllFailed(
                     IF storeUp THEN [hist EXCEPT !.uncharged[0] = @ - 1] ELSE hist,
                     nwr)
  /\ UNCHANGED <<gmail_count, currentGmailIndex, numGmail, other>>
  /\ RouterFrame

\* const gmailCount = await this.getGmailCount(currentIndex);
\* if (gmailCount < gmailAccounts[currentIndex].dailyLimit)
GetGmailCount(w) ==
  /\ procUp
  /\ worker[w].pc = "getGmailCount"
  /\ LET wr == worker[w]
         count == ParseCount(gmail_count[wr.idx])
         nwr == IF ~storeUp
                  THEN ReadFailed(wr)
                  ELSE IF GmailAdmits(count)
                    THEN [wr EXCEPT !.pc = "gmailSend", !.cnt = count]
                    ELSE GmailLoop(wr, wr.i + 1)
     IN /\ worker' = [worker EXCEPT ![w] = nwr]
        /\ hist' = NoteAllFailed(hist, nwr)
  /\ UNCHANGED <<sendgrid_count, gmail_count, currentGmailIndex, numGmail, other>>
  /\ RouterFrame

\* await transporter.sendMail(...): accepted, or rejected (caught, continue)
GmailSend(w, ok) ==
  /\ procUp
  /\ worker[w].pc = "gmailSend"
  /\ LET wr == worker[w]
         nwr == IF ok
                  THEN [wr EXCEPT !.pc = "incrementGmailCount",
                                  !.accepted = TRUE, !.cnt = 0]
                  ELSE GmailLoop(wr, wr.i + 1)
         h == IF ok
                THEN [hist EXCEPT !.uncharged[wr.idx + 1] = @ + 1,
                                  !.sends[wr.job] = @ + 1,
                                  !.sent[wr.idx] = @ + 1]
                ELSE [hist EXCEPT !.sendFailed = TRUE]
     IN /\ worker' = [worker EXCEPT ![w] = nwr]
        /\ hist' = NoteAllFailed(h, nwr)
  /\ UNCHANGED <<sendgrid_count, gmail_count, currentGmailIndex, numGmail, other>>
  /\ RouterFrame

\* this.currentGmailIndex = currentIndex: the offset of the next call is the
\* account that has just sent
NextOffset_RoundRobin(idx) == (idx + 1) % numGmail

NextOffset(idx) == idx

\* await this.incrementGmailCount(currentIndex);
\* this.currentGmailIndex = currentIndex; return;  -- inside the try
IncrementGmailCount(w) ==
  /\ procUp
  /\ worker[w].pc = "incrementGmailCount"
  /\ LET wr == worker[w]
         nwr == IF storeUp THEN [wr EXCEPT !.pc = "returned"]
                           ELSE GmailLoop(wr, wr.i + 1)
     IN /\ worker' = [worker EXCEPT ![w] = nwr]
        /\ gmail_count' = IF storeUp
                            THEN [gmail_count EXCEPT ![wr.idx] =
                                    AtomicIncr(@, other[wr.idx + 1] > 0)]
                            ELSE gmail_count
        /\ currentGmailIndex' = IF storeUp THEN NextOffset(wr.idx)
                                          ELSE currentGmailIndex
        /\ hist' = NoteAllFailed(
                     IF storeUp THEN [hist EXCEPT !.uncharged[wr.idx + 1] = @ - 1]
                                ELSE hist,
                     nwr)
  /\ UNCHANGED <<sendgrid_count, numGmail, other>>
  /\ RouterFrame

(* ---------------- resetCountsDaily ---------------- *)
\* the setInterval callback starts: await redis.set('sendgrid_count', 0);
\* a rejected SET ends the callback
ResetFire ==
  /\ procUp
  /\ resetPc = -1
  /\ nextReset <= now
  /\ nextReset' = nextReset + DayMs
  /\ sendgrid_count' = IF storeUp THEN <<0>> ELSE sendgrid_count
  /\ resetPc' = IF storeUp /\ numGmail > 0 THEN 0 ELSE -1
  /\ UNCHANGED <<now, events, procUp, storeUp, jobs, worker,
                 gmail_count, currentGmailIndex, numGmail, other, failedSet,
                 statusRes, boot, peer, hist>>
  /\ lastResponse' = NoResponse
  /\ UNCHANGED <<rl, req>>

\* await redis.set(`gmail_count_${i}`, 0) for the next i
ResetStep ==
  /\ procUp
  /\ resetPc >= 0
  /\ gmail_count' = IF storeUp THEN [gmail_count EXCEPT ![resetPc] = <<0>>]
                               ELSE gmail_count
  /\ resetPc' = IF storeUp /\ resetPc + 1 < numGmail THEN resetPc + 1 ELSE -1
  /\ UNCHANGED <<now, events, procUp, storeUp, jobs, worker,
                 sendgrid_count, currentGmailIndex, numGmail, other, failedSet,
                 statusRes, boot, peer, nextReset, hist>>
  /\ lastResponse' = NoResponse
  /\ UNCHANGED <<rl, req>>

(* ---------------- the environment ---------------- *)
\* time passes; Redis drops the keys whose expiry has passed
AdvanceTime(d) ==
  /\ events < MaxEvents
  /\ events' = events + 1
  /\ now' = now + d
  /\ rl' = {k \in rl : KeyLive(k, now + d)}
  /\ hist' = [hist EXCEPT !.arrivals =
                {a \in @ : a.hour >= (now + d) \div HourMs}]
  /\ UNCHANGED <<procUp, storeUp, jobs, worker, sendgrid_count, gmail_count,
                 currentGmailIndex, numGmail, other, failedSet,
                 statusRes, boot, peer, nextReset, resetPc, req>>
  /\ lastResponse' = NoResponse

\* the process dies: its callbacks and timers die with it, Redis keeps its data
Crash ==
  /\ procUp
  /\ events < MaxEvents
  /\ events' = events + 1
  /\ procUp' = FALSE
  /\ worker' = [w \in Slots |-> IdleWorker]
  /\ resetPc' = -1
  /\ hist' = [hist EXCEPT !.crashed = TRUE]
  /\ req' = NoReq
  /\ peer' = NoReq
  /\ UNCHANGED <<now, storeUp, jobs, sendgrid_count, gmail_count,
                 currentGmailIndex, numGmail, other, failedSet,
                 statusRes, boot, nextReset, rl>>
  /\ lastResponse' = NoResponse

\* the process starts again: new EmailService() (currentGmailIndex = 0, a
\* new 24 h interval), the queue reconnects to the same Redis
JobsAfterRestart_InMemory(js) ==
  [j \in JobIds |-> IF js[j].state = "delayed" THEN NoJob ELSE js[j]]

\* the queue is created over the same Redis keys: the jobs are the stored ones
JobsAfterRestart(js) == js

Restart ==
  /\ ~procUp
  /\ procUp' = TRUE
  /\ currentGmailIndex' = 0
  /\ nextReset' = now + DayMs
  /\ jobs' = JobsAfterRestart(jobs)
  /\ UNCHANGED <<now, events, storeUp, worker, sendgrid_count, gmail_count,
                 numGmail, other, failedSet,
                 statusRes, boot, peer, resetPc, hist>>
  /\ lastResponse' = NoResponse
  /\ UNCHANGED <<rl, req>>

StoreDown ==
  /\ storeUp
  /\ events < MaxEvents
  /\ events' = events + 1
  /\ storeUp' = FALSE
  /\ hist' = [hist EXCEPT !.storeFailed = TRUE]
  /\ UNCHANGED <<now, procUp, jobs, worker, sendgrid_count, gmail_count,
                 currentGmailIndex, numGmail, other, failedSet,
                 statusRes, boot, peer, nextReset, resetPc>>
  /\ lastResponse' = NoResponse
  /\ UNCHANGED <<rl, req>>

StoreUp ==
  /\ ~storeUp
  /\ storeUp' = TRUE
  /\ UNCHANGED <<now, events, procUp, jobs, worker, sendgrid_count,
                 gmail_count, currentGmailIndex, numGmail, other, failedSet,
                 statusRes, boot, peer, nextReset, resetPc,
                 hist>>
  /\ lastResponse' = NoResponse
  /\ UNCHANGED <<rl, req>>

(* ---------------- GET /em, the status endpoint ---------------- *)
\* redis.get leaves the key as it is
AfterGet_Create(val) == <<ParseCount(val)>>

AfterGet(val) == val

\* success with the counts, or 500 when a read was rejected
StatusOutcome(up) == IF up THEN 200 ELSE 500

\* getSendGridCount and getGmailCount(index) of every configured account
EmailServiceStatus ==
  /\ procUp
  /\ events < MaxEvents
  /\ events' = events + 1
  /\ statusRes' = [n |-> statusRes.n + 1, status |-> StatusOutcome(storeUp)]
  /\ IF storeUp
       THEN /\ sendgrid_count' = AfterGet(sendgrid_count)
            /\ gmail_count' = [i \in GmailIdx |->
                                 IF i < numGmail THEN AfterGet(gmail_count[i])
                                 ELSE gmail_count[i]]
       ELSE UNCHANGED <<sendgrid_count, gmail_count>>
  /\ lastResponse' = NoResponse
  /\ UNCHANGED <<now, procUp, storeUp, jobs, worker, currentGmailIndex,
                 numGmail, nextReset, resetPc, rl, other, req, hist,
                 failedSet, boot, peer>>

(* ---------------- GET /test-email-services ---------------- *)
\* the channels the self-test sends through: SendGrid and every configured
\* Gmail account, whatever their counters say
TestedChannels == {c \in Channels : c <= numGmail}

\* one test message through each channel; accepted is the set of channels
\* that accepted theirs. No counter is read or incremented.
TestEmailServices(accepted) ==
  /\ procUp
  /\ events < MaxEvents
  /\ events' = events + 1
  /\ accepted \subseteq TestedChannels
  /\ hist' = [hist EXCEPT !.tested =
                [c \in Channels |-> IF c \in accepted THEN @[c] + 1 ELSE @[c]]]
  /\ lastResponse' = NoResponse
  /\ UNCHANGED <<now, procUp, storeUp, jobs, worker, sendgrid_count,
                 gmail_count, currentGmailIndex, numGmail, nextReset, resetPc,
                 rl, other, req, failedSet, statusRes, boot, peer>>

(* ---------------- loading the module ---------------- *)
BootFrame ==
  UNCHANGED <<now, events, storeUp, jobs, worker, sendgrid_count,
              gmail_count, currentGmailIndex, nextReset, resetPc,
              lastResponse, rl, other, req, hist, failedSet, statusRes,
              peer>>

\* new Redis(UPSTASH_REDIS_URL, ...) and new Queue(..., {redis: {host:
\* new URL(UPSTASH_REDIS_URL).hostname, ...}}): new URL(undefined) throws,
\* and the uncaught exception ends the process with exit code 1
BootConnect ==
  /\ boot.pc = "load"
  /\ boot' = [boot EXCEPT !.pc = IF StoreVar \in boot.env
                                   THEN "validate" ELSE "threw"]
  /\ UNCHANGED <<procUp, numGmail>>
  /\ BootFrame

\* validateEnvVariables(): process.exit(1) when REDIS_URL is missing in
\* production or when any name of `required` is missing
Missing(env) == RequiredVars \ env

BootValidate ==
  /\ boot.pc = "validate"
  /\ boot' = [boot EXCEPT !.pc =
                IF ("NODE_ENV" \in boot.env /\ "REDIS_URL" \notin boot.env)
                     \/ Missing(boot.env) # {}
                  THEN "exited" ELSE "accounts"]
  /\ UNCHANGED <<procUp, numGmail>>
  /\ BootFrame

\* const gmailAccounts = [...].filter(account => account.user && account.pass)
BootAccounts ==
  /\ boot.pc = "accounts"
  /\ numGmail' = Cardinality(ConfiguredAccounts(boot.env))
  /\ boot' = [boot EXCEPT !.pc = "listen"]
  /\ UNCHANGED procUp
  /\ BootFrame

\* emailQueue.process(...) and app.listen(PORT)
BootListen ==
  /\ boot.pc = "listen"
  /\ boot' = [boot EXCEPT !.pc = "listening"]
  /\ procUp' = TRUE
  /\ UNCHANGED numGmail
  /\ BootFrame

(* ---------------- another instance on the same store ---------------- *)
\* the program can be started more than once against the same Redis: each
\* instance runs the same sendEmail and charges the same keys
CounterOf(c) == IF c = 0 THEN sendgrid_count ELSE gmail_count[c - 1]

\* this process is between an accepted send through channel c and its INCR
Charging(c) ==
  \E w \in Slots :
    \/ c = 0 /\ worker[w].pc = "incrementSendGridCount"
    \/ c > 0 /\ worker[w].pc = "incrementGmailCount" /\ worker[w].idx + 1 = c

\* the other instance read channel c's counter below the ceiling and its
\* send was accepted
OtherSend(c) ==
  /\ storeUp
  /\ c <= numGmail
  /\ events < MaxEvents
  /\ IF c = 0 THEN SendGridAdmits(ParseCount(CounterOf(c)))
              ELSE GmailAdmits(ParseCount(CounterOf(c)))
  /\ events' = events + 1
  /\ other' = [other EXCEPT ![c] = @ + 1]
  /\ hist' = [hist EXCEPT !.uncharged[c] = @ + 1, !.others[c] = @ + 1]
  /\ lastResponse' = NoResponse
  /\ UNCHANGED <<now, procUp, storeUp, jobs, worker, sendgrid_count,
                 gmail_count, currentGmailIndex, numGmail, failedSet, statusRes, boot, peer,
                 nextReset, resetPc,
                 rl, req>>

\* the other instance's await redis.incr(key) settles
OtherIncr(c) ==
  /\ other[c] > 0
  /\ other' = [other EXCEPT ![c] = @ - 1]
  /\ LET overlapping == Charging(c) \/ other[c] > 1
         val == IF storeUp THEN AtomicIncr(CounterOf(c), overlapping)
                           ELSE CounterOf(c)
     IN /\ IF c = 0
             THEN sendgrid_count' = val /\ UNCHANGED gmail_count
             ELSE gmail_count' = [gmail_count EXCEPT ![c - 1] = val]
                  /\ UNCHANGED sendgrid_count
        /\ hist' = [hist EXCEPT
                      !.uncharged[c] = IF storeUp THEN @ - 1 ELSE @,
                      !.overlapped = @ \/ (storeUp /\ Charging(c))]
  /\ lastResponse' = NoResponse
  /\ UNCHANGED <<now, events, procUp, storeUp, jobs, worker,
                 currentGmailIndex, numGmail, failedSet, statusRes, boot, peer,
                 nextReset, resetPc, rl, req>>

Next ==
  \/ \E c \in Clients : RateLimitIncr(c)
  \/ RateLimitExpire
  \/ RateLimitTtl
  \/ \E valid \in BOOLEAN, t \in TimeInDaysValues, d \in Payloads :
       SendReminder(valid, t, d)
  \/ SendReminderAddFails
  \/ EmailServiceStatus
  \/ \E accepted \in SUBSET Channels : TestEmailServices(accepted)
  \/ \E j \in JobIds : PromoteDelayed(j)
  \/ \E w \in Slots, j \in JobIds : FetchJob(w, j)
  \/ \E w \in Slots : GetSendGridCount(w)
  \/ \E w \in Slots, ok \in BOOLEAN : SendGridSend(w, ok)
  \/ \E w \in Slots : IncrementSendGridCount(w)
  \/ \E w \in Slots : GetGmailCount(w)
  \/ \E w \in Slots, ok \in BOOLEAN : GmailSend(w, ok)
  \/ \E w \in Slots : IncrementGmailCount(w)
  \/ \E w \in Slots : MoveToCompleted(w)
  \/ \E w \in Slots : MoveToFailed(w)
  \/ \E j \in JobIds : LockExpire(j)
  \/ \E j \in JobIds : MoveStalledJobsToWait(j)
  \/ ResetFire
  \/ ResetStep
  \/ \E d \in {BackoffDelay, DayMs} : AdvanceTime(d)
  \/ Crash
  \/ Restart
  \/ StoreDown
  \/ StoreUp

Spec == Init /\ [][Next]_vars

\* the delivery router on its own: one job is due, the counters of the store
\* are anywhere around their ceilings and one to three Gmail accounts are
\* configured; one more environment event may follow
CountsAround == [Channels -> {0, 1, 2}]
CountsOf(k) ==
  [c \in Channels |->
     IF k[c] = 0 THEN Absent
     ELSE IF c = 0 THEN <<SendGridLimit - 2 + k[c]>>
     ELSE <<DailyLimit - 2 + k[c]>>]

InitRouter ==
  /\ now = 0
  /\ events = MaxEvents - 1
  /\ procUp = TRUE
  /\ storeUp = TRUE
  /\ jobs = [j \in JobIds |->
               IF j = 1 THEN [NoJob EXCEPT !.state = "wait"] ELSE NoJob]
  /\ worker = [w \in Slots |-> IdleWorker]
  /\ currentGmailIndex = 0
  /\ nextReset = DayMs
  /\ resetPc = -1
  /\ lastResponse = NoResponse
  /\ req = NoReq
  /\ other = [c \in Channels |-> 0]
  /\ failedSet = {}
  /\ statusRes = NoStatus
  /\ peer = NoReq
  /\ InitKeys(BusyKeys)
  /\ \E n \in 1..MaxGmail, k \in CountsAround :
       /\ \A c \in Channels : c > n => k[c] = 0
       /\ InitCounts(n, CountsOf(k))

SpecRouter == InitRouter /\ [][Next]_vars

\* the delivery router next to a second instance of the program that sends
\* through the same channels and charges the same counters
NextShared ==
  \/ Next
  \/ \E c \in Channels : OtherSend(c)
  \/ \E c \in Channels : OtherIncr(c)

SpecShared == InitRouter /\ [][NextShared]_vars

\* the rate limiter on its own: the store holds no key, or the key of a
\* client that has used up its hour, or is one short of it, with the expiry
\* of the first request or without it (the expire of the first request was
\* rejected); the clock moves by half hours and hours
LimiterKeys ==
  {NoKeys, BusyKeys, {Key("a", 0, RateLimit)},
   {[Key("a", 0, RateLimit - 1) EXCEPT !.ttlSet = TRUE,
                                       !.expireAt = ExpireSeconds * 1000]}}

InitLimiter ==
  /\ InitProcess
  /\ InitCounts(1, FreshCounts)
  /\ \E ks \in LimiterKeys : InitKeys(ks)

NextLimiter ==
  \/ \E c \in Clients : RateLimitIncr(c)
  \/ RateLimitExpire
  \/ RateLimitTtl
  \/ \E valid \in BOOLEAN, t \in TimeInDaysValues, d \in Payloads :
       SendReminder(valid, t, d)
  \/ SendReminderAddFails
  \/ \E d \in {HourMs \div 2, HourMs} : AdvanceTime(d)
  \/ Crash
  \/ Restart
  \/ StoreDown
  \/ StoreUp

SpecLimiter == InitLimiter /\ [][NextLimiter]_vars

\* the rate limiter with two requests inside the middleware chain at once
NextConcurrent ==
  \/ NextLimiter
  \/ SwitchRequest

SpecConcurrent == InitLimiter /\ [][NextConcurrent]_vars

\* the process is restarted after a crash, the store comes back after an
\* outage and the queue's delay timer runs
\* the queue's retention: a store whose failed set already holds 99 or 100
\* jobs of earlier days, and a job on the wait list that has not run yet or
\* has failed twice
FailedBefore == {1..(RemoveOnFail - 1), 1..RemoveOnFail}

InitRetention ==
  /\ now = 0
  /\ events = MaxEvents - 1
  /\ procUp = TRUE
  /\ storeUp = TRUE
  /\ worker = [w \in Slots |-> IdleWorker]
  /\ currentGmailIndex = 0
  /\ nextReset = DayMs
  /\ resetPc = -1
  /\ lastResponse = NoResponse
  /\ req = NoReq
  /\ other = [c \in Channels |-> 0]
  /\ statusRes = NoStatus
  /\ peer = NoReq
  /\ rl = BusyKeys
  /\ failedSet \in FailedBefore
  /\ \E made \in {0, Attempts - 1} :
       /\ jobs = [j \in JobIds |->
                    IF j = 1
                      THEN [NoJob EXCEPT !.state = "wait",
                                         !.attemptsMade = made]
                      ELSE NoJob]
       /\ hist = [InitHist EXCEPT
                    !.runs[1] = made,
                    !.arrivals =
                      {[client |-> k.client, hour |-> k.hour, k |-> k.count] :
                         k \in BusyKeys}]
  /\ \E k \in CountsAround :
       /\ \A c \in Channels : c > 1 => k[c] = 0
       /\ InitCounts(1, CountsOf(k))

SpecRetention == InitRetention /\ [][Next]_vars

\* the start of the process, from every environment
InitStartup ==
  /\ now = 0
  /\ events = 0
  /\ procUp = FALSE
  /\ storeUp = TRUE
  /\ jobs = [j \in JobIds |-> NoJob]
  /\ worker = [w \in Slots |-> IdleWorker]
  /\ sendgrid_count = Absent
  /\ gmail_count = [i \in GmailIdx |-> Absent]
  /\ currentGmailIndex = 0
  /\ numGmail = 0
  /\ nextReset = DayMs
  /\ resetPc = -1
  /\ lastResponse = NoResponse
  /\ req = NoReq
  /\ other = [c \in Channels |-> 0]
  /\ failedSet = {}
  /\ statusRes = NoStatus
  /\ peer = NoReq
  /\ InitKeys(NoKeys)
  /\ \E env \in SUBSET EnvNames : boot = [env |-> env, pc |-> "load"]

NextStartup ==
  \/ BootConnect
  \/ BootValidate
  \/ BootAccounts
  \/ BootListen

SpecStartup == InitStartup /\ [][NextStartup]_vars

FairSpec ==
  /\ Spec
  /\ WF_vars(Restart)
  /\ WF_vars(StoreUp)
  /\ \A j \in JobIds : WF_vars(PromoteDelayed(j))

\* time goes on until the deadline of a delayed job j is reached
AwaitDeadline(j) ==
  /\ jobs[j].state = "delayed"
  /\ jobs[j].until > now
  /\ now' = jobs[j].until
  /\ rl' = {k \in rl : KeyLive(k, jobs[j].until)}
  /\ hist' = [hist EXCEPT !.arrivals =
                {a \in @ : a.hour >= jobs[j].until \div HourMs}]
  /\ UNCHANGED <<events, procUp, storeUp, jobs, worker, sendgrid_count,
                 gmail_count, currentGmailIndex, numGmail, other, failedSet,
                 statusRes, boot, peer, nextReset, resetPc, req>>
  /\ lastResponse' = NoResponse

\* the consumer under fairness: time passes, the process is restarted, the
\* store comes back, and every step of the queue and of the callback that
\* can be taken is taken
NextLive ==
  \/ \E j \in JobIds : PromoteDelayed(j)
  \/ \E w \in Slots, j \in JobIds : FetchJob(w, j)
  \/ \E w \in Slots : GetSendGridCount(w)
  \/ \E w \in Slots, ok \in BOOLEAN : SendGridSend(w, ok)
  \/ \E w \in Slots : IncrementSendGridCount(w)
  \/ \E w \in Slots : GetGmailCount(w)
  \/ \E w \in Slots, ok \in BOOLEAN : GmailSend(w, ok)
  \/ \E w \in Slots : IncrementGmailCount(w)
  \/ \E w \in Slots : MoveToCompleted(w)
  \/ \E w \in Slots : MoveToFailed(w)
  \/ \E j \in JobIds : LockExpire(j)
  \/ \E j \in JobIds : MoveStalledJobsToWait(j)
  \/ \E j \in JobIds : AwaitDeadline(j)
  \/ Crash
  \/ Restart
  \/ StoreDown
  \/ StoreUp

\* a job has been enqueued for a day from now
InitLive ==
  /\ now = 0
  /\ events = MaxEvents - 1
  /\ procUp = TRUE
  /\ storeUp = TRUE
  /\ jobs = [j \in JobIds |->
               IF j = 1 THEN AddJob(Given(1), "p1") ELSE NoJob]
  /\ worker = [w \in Slots |-> IdleWorker]
  /\ currentGmailIndex = 0
  /\ nextReset = DayMs
  /\ resetPc = -1
  /\ lastResponse = NoResponse
  /\ req = NoReq
  /\ other = [c \in Channels |-> 0]
  /\ failedSet = {}
  /\ statusRes = NoStatus
  /\ peer = NoReq
  /\ InitKeys(BusyKeys)
  /\ \E k \in CountsAround :
       /\ \A c \in Channels : c > 1 => k[c] = 0
       /\ InitCounts(1, CountsOf(k))

Consumer(w) ==
  \/ \E j \in JobIds : FetchJob(w, j)
  \/ GetSendGridCount(w)
  \/ \E ok \in BOOLEAN : SendGridSend(w, ok)
  \/ IncrementSendGridCount(w)
  \/ GetGmailCount(w)
  \/ \E ok \in BOOLEAN : GmailSend(w, ok)
  \/ IncrementGmailCount(w)
  \/ MoveToCompleted(w)
  \/ MoveToFailed(w)

SpecLive ==
  /\ InitLive
  /\ [][NextLive]_vars
  /\ WF_vars(Restart)
  /\ WF_vars(StoreUp)
  /\ \A w \in Slots : WF_vars(Consumer(w))
  /\ \A j \in JobIds : WF_vars(PromoteDelayed(j))
  /\ \A j \in JobIds : WF_vars(LockExpire(j))
  /\ \A j \in JobIds : WF_vars(MoveStalledJobsToWait(j))
  /\ \A j \in JobIds : WF_vars(AwaitDeadline(j))

(* ======================= claims ======================= *)
Running(j) == \E w \in Slots : worker[w].job = j

\* the callback of job j has been invoked and is not running now
RunsOver(j) == hist.runs[j] > 0 /\ ~Running(j)

\* C1: a job that never stalled and whose callback has thrown at every run
\* has had exactly as many runs as counted attempts (plus the run in
\* progress); after its first and second failure it is Waiting again, it is
\* FailedTerminal exactly when attemptsMade = 3, and so its callback is never
\* invoked a fourth time.
C1_FailingJobLifecycle ==
  \A j \in JobIds :
    (jobs[j].state \notin {"none", "completed"} /\ jobs[j].stalledCounter = 0)
      => /\ jobs[j].attemptsMade <= Attempts
         /\ hist.runs[j] <= Attempts
         /\ hist.runs[j] =
              jobs[j].attemptsMade + (IF jobs[j].state = "active" THEN 1 ELSE 0)
         /\ (jobs[j].state = "failed") = (jobs[j].attemptsMade = Attempts)
         /\ (jobs[j].attemptsMade \in {1, 2} /\ jobs[j].state # "active"
               => jobs[j].state \in {"delayed", "wait"})

C1_Witness ==
  \E j \in JobIds :
    /\ jobs[j].state = "failed"
    /\ jobs[j].stalledCounter = 0
    /\ jobs[j].attemptsMade = 3
    /\ hist.runs[j] = 3
    /\ hist.sends[j] = 0

\* C2: every submission answered with success has persisted one job with
\* attempts = 0 whose deadline is the submission time plus
\* timeInDays x 86400 s, whatever timeInDays the request carried.
C2_DeadlineIsSubmissionPlusDays ==
  lastResponse.status = 200 =>
    LET job == jobs[lastResponse.jobId] IN
      /\ job.state \in {"delayed", "wait"}
      /\ job.attemptsMade = 0
      /\ job.timeInDays.present
      /\ job.until = now + job.timeInDays.v * DayMs

\* C3: no job is Active, and no callback runs for it, before the job's
\* current deadline (the initial one or the one of the last backoff).
C3_NotActiveBeforeDeadline ==
  \A j \in JobIds :
    (jobs[j].state = "active" \/ Running(j)) => jobs[j].until <= now

C3_Witness ==
  \E j \in JobIds :
    /\ jobs[j].state = "active"
    /\ Running(j)
    /\ jobs[j].attemptsMade = 1
    /\ jobs[j].until = jobs[j].timestamp + jobs[j].timeInDays.v * DayMs
                         + BackoffDelay
    /\ jobs[j].timeInDays = Given(1)

\* C4: at every moment at most one callback is running for a job id, also
\* when the job lost its lock and the stalled-job check re-queued it.
C4_OneActiveInstance ==
  \A j \in JobIds : Cardinality({w \in Slots : worker[w].job = j}) <= 1

C4_Witness ==
  \E j \in JobIds :
    /\ Running(j)
    /\ jobs[j].state = "wait"
    /\ jobs[j].stalledCounter = 1

C5_StalledStep ==
  \A j \in JobIds :
    (jobs[j].state = "active" /\ ~jobs[j].lock /\ jobs'[j] # jobs[j])
      => /\ jobs'[j].attemptsMade = jobs[j].attemptsMade
         /\ jobs'[j].until = jobs[j].until
         /\ jobs'[j].data = jobs[j].data
         /\ jobs'[j].stalledCounter = jobs[j].stalledCounter + 1
         /\ jobs'[j].state =
              IF jobs[j].stalledCounter >= MaxStalledCount
                THEN "failed" ELSE "wait"

C5_Accounting ==
  \A j \in JobIds :
    /\ hist.runs[j] > 0 => jobs[j].state # "none"
    /\ hist.runs[j] = jobs[j].attemptsMade + jobs[j].stalledCounter
                        + (IF jobs[j].state \in {"active", "completed"}
                             THEN 1 ELSE 0)
    /\ (jobs[j].state = "failed")
         = (jobs[j].attemptsMade = Attempts
              \/ jobs[j].stalledCounter > MaxStalledCount)

NoFault == ~hist.sendFailed /\ ~hist.storeFailed /\ ~hist.crashed

ProcessedOnce(j) ==
  /\ hist.runs[j] <= 1
  /\ hist.sends[j] <= 1
  /\ RunsOver(j) => (jobs[j].state = "completed" /\ hist.sends[j] = 1)

\* C7 as stated: when no send fails, no store operation fails and the
\* process does not crash, every job's callback runs once, makes one send
\* and the job ends Completed.
C7_ExactlyOnceNoFault == NoFault => \A j \in JobIds : ProcessedOnce(j)

\* C7 amended: when no send fails, no store operation fails, the process
\* does not crash and no deliver call finds every channel at its ceiling,
\* every job's callback runs once, makes one send and the job ends
\* Completed.
C7_ExactlyOnceUnderQuota ==
  (NoFault /\ ~hist.allFailed) => \A j \in JobIds : ProcessedOnce(j)

C7_Witness ==
  \E j \in JobIds :
    /\ NoFault
    /\ ~hist.allFailed
    /\ jobs[j].state = "completed"
    /\ hist.runs[j] = 1
    /\ hist.sends[j] = 1

\* C8: deliver returns Ok if and only if some channel accepted the send, and
\* throws 'All email services failed or reached their limits' exactly when
\* every channel was skipped for quota or failed its send.
C8_OkIffAccepted ==
  \A w \in Slots :
    /\ worker[w].pc = "returned" => worker[w].accepted
    /\ worker[w].pc = "threw" => ~worker[w].accepted

\* C9: a send is attempted on a channel only if the counter read for it in
\* this deliver call is below the channel's ceiling.
C9_NoSendAtCeiling ==
  \A w \in Slots :
    /\ worker[w].pc = "sgSend" => worker[w].cnt < SendGridLimit
    /\ worker[w].pc = "gmailSend" => worker[w].cnt < DailyLimit

C9_Witness ==
  \E w \in Slots :
    /\ worker[w].pc = "gmailSend"
    /\ worker[w].i = 1
    /\ ~hist.sendFailed
    /\ ~hist.storeFailed
    /\ ParseCount(sendgrid_count) >= SendGridLimit
    /\ \E i \in GmailIdx : i # worker[w].idx /\ i < numGmail
                             /\ ParseCount(gmail_count[i]) >= DailyLimit

\* C10: a counter is incremented only by the deliver call whose send through
\* that channel was accepted, a step in which a send fails changes no
\* counter, and a channel's increments never exceed its accepted sends.
C10_Step ==
  /\ \A c \in Channels : hist'.uncharged[c] >= 0
  /\ (hist'.sendFailed /\ ~hist.sendFailed)
       => (sendgrid_count' = sendgrid_count /\ gmail_count' = gmail_count)
  /\ (sendgrid_count' # sendgrid_count /\ sendgrid_count' # <<0>>)
       => \E w \in Slots : /\ worker[w].pc = "incrementSendGridCount"
                           /\ worker[w].accepted
                           /\ hist.uncharged[0] > 0
  /\ \A i \in GmailIdx :
       (gmail_count'[i] # gmail_count[i] /\ gmail_count'[i] # <<0>>)
         => \E w \in Slots : /\ worker[w].pc = "incrementGmailCount"
                             /\ worker[w].idx = i
                             /\ worker[w].accepted
                             /\ hist.uncharged[i + 1] > 0

C10_IncrementAfterSuccess == [][C10_Step]_vars

C10_Witness ==
  /\ hist.sendFailed
  /\ ~hist.storeFailed
  /\ sendgrid_count = Absent
  /\ gmail_count[0] = <<DailyLimit>>
  /\ gmail_count[1] = <<1>>
  /\ \A c \in Channels : hist.uncharged[c] = 0
  /\ \E w \in Slots : worker[w].pc = "returned"

\* the deliver calls that hold an accepted send through channel c and have
\* not yet settled its increment
PendingIncrement(c) ==
  Cardinality({w \in Slots :
     \/ c = 0 /\ worker[w].pc = "incrementSendGridCount"
     \/ c > 0 /\ worker[w].pc = "incrementGmailCount"
              /\ worker[w].idx + 1 = c})

\* C11 as stated: every accepted send is followed by exactly one increment,
\* of the counter of the channel that sent it: once the increment step of a
\* send is over, the send has been charged.
C11_ExactlyOneIncrement ==
  \A c \in Channels : hist.uncharged[c] = PendingIncrement(c)

\* C11 amended: an accepted send is charged at most once, to the counter of
\* the channel that sent it and to no other: a step that increments a
\* counter raises that one counter by one on behalf of one accepted send
\* that was not charged before; and when no store operation fails and the
\* process does not crash, every accepted send is charged exactly once.
C11_Step ==
  /\ (sendgrid_count' # sendgrid_count /\ sendgrid_count' # <<0>>)
       => /\ ParseCount(sendgrid_count') = ParseCount(sendgrid_count) + 1
          /\ gmail_count' = gmail_count
          /\ hist'.uncharged =
               [hist.uncharged EXCEPT ![0] = @ - 1]
  /\ \A i \in GmailIdx :
       (gmail_count'[i] # gmail_count[i] /\ gmail_count'[i] # <<0>>)
         => /\ ParseCount(gmail_count'[i]) = ParseCount(gmail_count[i]) + 1
            /\ sendgrid_count' = sendgrid_count
            /\ \A k \in GmailIdx : k # i => gmail_count'[k] = gmail_count[k]
            /\ hist'.uncharged =
                 [hist.uncharged EXCEPT ![i + 1] = @ - 1]

C11_Accounting ==
  \A c \in Channels :
    /\ hist.uncharged[c] >= PendingIncrement(c)
    /\ (~hist.storeFailed /\ ~hist.crashed)
         => hist.uncharged[c] = PendingIncrement(c)

C11_AtMostOneIncrement == [][C11_Step /\ C11_Accounting']_vars

\* a job was retried after a failed attempt and the send of its second run
\* was charged once
C11_Witness ==
  /\ hist.runs[1] = 2
  /\ hist.sends[1] = 1
  /\ hist.sendFailed
  /\ ~hist.storeFailed
  /\ ~hist.crashed
  /\ sendgrid_count = <<1>>
  /\ \A c \in Channels : hist.uncharged[c] = 0
  /\ \E w \in Slots : worker[w].pc = "returned"

\* C12: when the read of a quota counter fails, the deliver call attempts no
\* send on the strength of that read and ends with the store's error, which
\* reaches the queue consumer: the step of a failed read leads to the throw
\* and nowhere else, and a call that ended so is settled as a failure.
C12_Step ==
  \A w \in Slots :
    /\ ( /\ worker[w].pc \in {"getSendGridCount", "getGmailCount"}
         /\ ~storeUp
         /\ worker'[w] # worker[w]
         /\ procUp' )
         => /\ worker'[w].pc = "threw"
            /\ worker'[w].err = "store"
            /\ worker'[w].accepted = worker[w].accepted
            /\ hist'.sends = hist.sends
            /\ sendgrid_count' = sendgrid_count
            /\ gmail_count' = gmail_count
    /\ ( /\ worker[w].pc = "threw"
         /\ worker[w].err = "store"
         /\ worker'[w] # worker[w] )
         => /\ worker'[w] = IdleWorker
            /\ jobs'[worker[w].job].state # "completed"

C12_FailedReadFailsCall == [][C12_Step]_vars

\* the read of a Gmail counter failed after SendGrid was skipped at its
\* ceiling; nothing was sent
C12_Witness ==
  \E w \in Slots :
    /\ worker[w].pc = "threw"
    /\ worker[w].err = "store"
    /\ ~worker[w].accepted
    /\ worker[w].i = 0
    /\ ParseCount(sendgrid_count) >= SendGridLimit
    /\ \A j \in JobIds : hist.sends[j] = 0

\* the step in which the queue consumer settles the thrown callback of slot w
SettlesThrown(w) ==
  /\ worker[w].pc = "threw"
  /\ worker'[w] # worker[w]
  /\ procUp'

\* the job of slot w after a counted failed attempt
CountedFailure(w) ==
  LET j == worker[w].job
      made == jobs[j].attemptsMade + 1
  IN /\ jobs'[j].attemptsMade = made
     /\ IF made < Attempts
          THEN jobs'[j].state = "delayed" /\ jobs'[j].until = now + BackoffDelay
          ELSE jobs'[j].state = "failed"

\* C13 as stated: when the deliver call has thrown, the consumer never marks
\* the job Completed for that attempt, increments its attempt count and
\* re-schedules it below 3 attempts or makes it terminal at 3.
C13_FailureCountsAsAttempt ==
  [][\A w \in Slots :
       SettlesThrown(w)
         => /\ jobs'[worker[w].job].state # "completed"
            /\ CountedFailure(w)]_vars

\* C13 amended: when the deliver call has thrown, the consumer never marks
\* the job Completed for that attempt; when the store is reachable and the
\* job still holds its lock at that moment, the attempt count is
\* incremented and the job is re-scheduled below 3 attempts or terminal at
\* 3; otherwise the job is left as it is, for the stalled-job check.
C13_FailureCountedWhenRecorded ==
  [][\A w \in Slots :
       SettlesThrown(w)
         => LET j == worker[w].job IN
            /\ jobs'[j].state # "completed"
            /\ IF storeUp /\ jobs[j].state = "active" /\ jobs[j].lock
                 THEN CountedFailure(w)
                 ELSE jobs'[j] = jobs[j]]_vars

\* a deliver call failed on an unreachable store, the store came back and
\* the failed attempt was counted and re-scheduled
C13_Witness ==
  \E j \in JobIds :
    /\ jobs[j].state = "delayed"
    /\ jobs[j].attemptsMade = 1
    /\ jobs[j].stalledCounter = 0
    /\ jobs[j].until = now + BackoffDelay
    /\ hist.storeFailed
    /\ ~hist.allFailed
    /\ ~hist.sendFailed
    /\ ~hist.crashed
    /\ hist.sends[j] = 0

\* every configured Gmail account has been healthy and is under its ceiling
SecondaryHealthy ==
  /\ ~hist.sendFailed
  /\ ~hist.storeFailed
  /\ ~hist.crashed
  /\ \A i \in GmailIdx : i < numGmail => GmailAdmits(ParseCount(gmail_count[i]))

\* C14: while every secondary channel is healthy and under its ceiling, the
\* numbers of sends made through any two configured secondary channels
\* differ by at most one.
C14_EvenSpread ==
  SecondaryHealthy =>
    \A i, k \in GmailIdx :
      (i < numGmail /\ k < numGmail) => hist.sent[i] - hist.sent[k] <= 1

\* what the code does instead of C14: while every secondary channel is
\* healthy and under its ceiling, a successful secondary send leaves the
\* rotation offset on the
\* channel that sent, so every deliver call served by a secondary channel
\* is served by the same one: before the first daily reset all secondary
\* sends have gone through the first account and none through the others.
C14_OffsetStays ==
  \A w \in Slots :
    ( /\ SecondaryHealthy
      /\ worker[w].pc = "incrementGmailCount"
      /\ worker[w].i = 0
      /\ worker'[w].pc = "returned" )
      => currentGmailIndex' = currentGmailIndex

C14_AllThroughOne ==
  (SecondaryHealthy /\ now < DayMs) =>
    \A i \in GmailIdx : i > 0 => hist.sent[i] = 0

C14_StickyOffset == [][C14_OffsetStays /\ C14_AllThroughOne']_vars

\* two deliver calls were served by the secondary channels, both by the
\* first of two or more healthy accounts
C14_Witness ==
  /\ SecondaryHealthy
  /\ now < DayMs
  /\ numGmail >= 2
  /\ hist.sent[0] = 2
  /\ hist.sent[1] = 0
  /\ gmail_count[0] = <<2>>
  /\ \A j \in JobIds : jobs[j].state = "completed"

C16_RetryHintInRange ==
  lastResponse.status = 429
    => (lastResponse.ttl > 0 /\ lastResponse.ttl <= ExpireSeconds)

\* how a key comes to have no expiry: the first request of an hour was
\* counted, its expire was rejected and the catch let the request through
C16_KeyWithoutExpiry ==
  /\ req.pc = "route"
  /\ req.caught
  /\ req.n = 1
  /\ \E k \in KeysOf(req.client, req.hour) : ~k.ttlSet /\ k.count = 1

\* C17: the count a request is judged by is the number of requests its
\* client has made in the request's own hour bucket, whatever the client
\* did in earlier buckets: while no store operation fails, the value the
\* INCR returned is the request's ordinal within its bucket.
C17_CountedFromZero ==
  (~hist.storeFailed /\ req.pc # "none") => req.n = req.ord

\* client "a" went over the limit in bucket 0, whose key is still in the
\* store, and its first request of bucket 1 is counted as 1
C17_Witness ==
  /\ ~hist.storeFailed
  /\ req.pc = "expire"
  /\ req.client = "a"
  /\ req.hour = 1
  /\ req.n = 1
  /\ CountOf("a", 0) = RateLimit + 1

\* C18: when a store operation of the limiter (incr, expire or ttl) fails,
\* the limiter answers nothing itself and hands the request to the route:
\* a limiter step taken while the store is unreachable ends at next(), a
\* 429 is only ever sent by a ttl step whose store call succeeded, and a
\* request whose limiter failed is never anywhere but at the route.
C18_Step ==
  /\ ( /\ ~storeUp
       /\ req' # req
       /\ procUp'
       /\ req.pc \in {"none", "expire", "ttl"} )
       => /\ req'.pc = "route"
          /\ req'.caught
          /\ lastResponse'.status = 0
          /\ rl' = rl
  /\ lastResponse'.status = 429
       => (storeUp /\ req.pc = "ttl" /\ ~req.caught)

C18_Caught == req.caught => req.pc = "route"

C18_FailOpen == [][C18_Step /\ C18_Caught']_vars

\* the eighth request of its hour was counted, the ttl call failed and the
\* request is handed to the route
C18_Witness ==
  /\ req.pc = "route"
  /\ req.caught
  /\ req.n = RateLimit + 1
  /\ ~storeUp

\* the step in which the route answers the request in flight
Answers == req.pc = "route" /\ lastResponse'.status # 0

\* C19: a request whose body lacks email, problemLink or problemName and
\* that passes the route's health check is answered 400; whatever it is
\* answered, it enqueues no job and changes no job, no quota counter and
\* nothing of the deliveries under way.
C19_Step ==
  (Answers /\ ~lastResponse'.valid)
    => /\ lastResponse'.status = (IF storeUp THEN 400 ELSE 503)
       /\ lastResponse'.jobId = 0
       /\ jobs' = jobs
       /\ worker' = worker
       /\ sendgrid_count' = sendgrid_count
       /\ gmail_count' = gmail_count
       /\ currentGmailIndex' = currentGmailIndex
       /\ hist' = hist

IdsInUse == Cardinality({j \in JobIds : jobs[j].state # "none"})

\* C20: the response to a submission is a function of the outcome of
\* admission (denied by the limiter or not), of validation and of the
\* enqueue write (store reachable at the health check and at the add, the
\* id the queue assigns), and of nothing else: no state of any delivery
\* enters it, the step that answers changes no delivery state, and the
\* job a 200 reports has not been run when the answer is sent.
C20_Step ==
  lastResponse'.status # 0
    => /\ lastResponse'.status =
            (IF req.pc = "ttl" THEN 429
             ELSE IF ~storeUp THEN 503
             ELSE IF ~lastResponse'.valid THEN 400
             ELSE IF storeUp' THEN 200 ELSE 500)
       /\ lastResponse'.jobId =
            (IF lastResponse'.status = 200 THEN IdsInUse + 1 ELSE 0)
       /\ lastResponse'.status = 200
            => /\ jobs'[lastResponse'.jobId].attemptsMade = 0
               /\ hist.runs[lastResponse'.jobId] = 0
       /\ worker' = worker
       /\ sendgrid_count' = sendgrid_count
       /\ gmail_count' = gmail_count
       /\ \A j \in JobIds : jobs[j].state # "none" => jobs'[j] = jobs[j]

C20_ResponseIgnoresDelivery == [][C20_Step]_vars

\* a submission is answered 200 while the delivery of an earlier job has
\* failed on every channel
C20_Witness ==
  /\ lastResponse.status = 200
  /\ lastResponse.jobId = 2
  /\ hist.allFailed
  /\ jobs[1].attemptsMade >= 1

\* the number a stored counter stands for: nothing stored stands for 0
StandsFor(val) == IF val = Absent THEN 0 ELSE val[1]

\* C21: a counter that the reset has written reads 0 and so does an absent
\* counter: the reset steps leave the keys they write standing for 0 and a
\* read returns the number the key stands for; every increment call that
\* the store executes raises what the key stands for by exactly one, so n
\* calls without a reset in between raise it by n.
C21_Step ==
  /\ (procUp /\ storeUp /\ resetPc = -1 /\ nextReset' # nextReset)
       => StandsFor(sendgrid_count') = 0
  /\ (procUp' /\ storeUp /\ resetPc >= 0 /\ resetPc' # resetPc)
       => StandsFor(gmail_count'[resetPc]) = 0
  /\ \A w \in Slots :
       /\ (worker[w].pc = "getSendGridCount" /\ worker'[w].pc = "sgSend")
            => worker'[w].cnt = StandsFor(sendgrid_count)
       /\ (worker[w].pc = "getGmailCount" /\ worker'[w].pc = "gmailSend")
            => worker'[w].cnt = StandsFor(gmail_count[worker[w].idx])
       /\ ( /\ worker[w].pc = "incrementSendGridCount"
            /\ storeUp /\ procUp' /\ worker'[w] # worker[w] )
            => StandsFor(sendgrid_count') = StandsFor(sendgrid_count) + 1
       /\ ( /\ worker[w].pc = "incrementGmailCount"
            /\ storeUp /\ procUp' /\ worker'[w] # worker[w] )
            => StandsFor(gmail_count'[worker[w].idx])
                 = StandsFor(gmail_count[worker[w].idx]) + 1

\* before the first reset the Gmail counter stands for what it stood for at
\* the start (nothing, or the ceiling) plus the number of increments made
C21_Sum ==
  now < DayMs =>
    StandsFor(gmail_count[0]) - (hist.sent[0] - hist.uncharged[1])
      \in {0, DailyLimit}

C21_ResetAndIncrement == [][C21_Step /\ C21_Sum']_vars

\* the counters were at their ceilings, the daily reset ran and the next
\* deliver call read 0 for SendGrid
C21_Witness ==
  /\ now >= DayMs
  /\ sendgrid_count = <<0>>
  /\ gmail_count[0] = <<0>>
  /\ hist.allFailed
  /\ \E w \in Slots : worker[w].pc = "sgSend" /\ worker[w].cnt = 0

\* C22: with a second instance completing sends on the same channels, no
\* increment is lost in any interleaving: every INCR that the store
\* executes raises the channel's counter by exactly one, whoever issues it
\* and whatever else is under way, and while no store operation fails and
\* no process crashes every accepted send is either still to be charged by
\* its instance or has been charged, so k sends have raised the counter by
\* k once their increments have settled.
C22_Step ==
  \A c \in Channels :
    /\ (other'[c] < other[c] /\ storeUp)
         => StandsFor(CounterOf(c)') = StandsFor(CounterOf(c)) + 1
    /\ (Charging(c) /\ ~Charging(c)' /\ storeUp /\ procUp')
         => StandsFor(CounterOf(c)') = StandsFor(CounterOf(c)) + 1
    /\ hist'.uncharged[c] < hist.uncharged[c]
         => StandsFor(CounterOf(c)') = StandsFor(CounterOf(c)) + 1

C22_Accounting ==
  (~hist.storeFailed /\ ~hist.crashed) =>
    \A c \in Channels : hist.uncharged[c] = PendingIncrement(c) + other[c]

C22_NoLostIncrement == [][C22_Step /\ C22_Accounting']_vars

\* both instances sent through SendGrid, the other instance's INCR ran
\* between this instance's send and its INCR, and the counter stands at 2
C22_Witness ==
  /\ hist.overlapped
  /\ ~hist.storeFailed
  /\ sendgrid_count = <<2>>
  /\ other[0] = 0
  /\ hist.uncharged[0] = 0
  /\ \E w \in Slots : worker[w].pc = "returned"

\* C23: a counter that stands at its ceiling is reset within 24 hours, also
\* across restarts: while the SendGrid counter stands at the ceiling it had
\* at time 0 and the process runs, the next reset its timer will make is
\* due no later than 24 hours after time 0.
C23_ResetWithinADay ==
  (procUp /\ sendgrid_count = <<SendGridLimit>>) => nextReset <= DayMs

\* C24: a job in the failed set never leaves it by itself: no step moves it
\* back to delayed, wait or active, changes any of its fields, or invokes
\* the callback for it again.
C24_Step ==
  \A j \in JobIds :
    jobs[j].state = "failed"
      => /\ jobs'[j] = jobs[j]
         /\ hist'.runs[j] = hist.runs[j]
         /\ \A w \in Slots : worker'[w].job = j => worker[w].job = j

C24_FailedIsTerminal == [][C24_Step]_vars

C24_Witness ==
  \E j \in JobIds :
    /\ jobs[j].state = "failed"
    /\ jobs[j].attemptsMade = Attempts
    /\ procUp
    /\ storeUp
    /\ \A w \in Slots : WorkerIdle(w)

\* the deadline of job j is respected: while it waits for a backoff it
\* leaves the delayed set only once the deadline has passed
BackoffRespected(j) ==
  (jobs[j].state = "delayed" /\ jobs[j].attemptsMade > 0
     /\ jobs'[j].state # "delayed")
    => /\ jobs[j].until <= now
       /\ jobs'[j].state = "wait"
       /\ jobs'[j].until = jobs[j].until

\* slot w settles a thrown callback of a job that has attempts left
SettlesRetry(w) ==
  /\ SettlesThrown(w)
  /\ jobs[worker[w].job].attemptsMade + 1 < Attempts

\* the job of slot w is delayed by the fixed backoff from now
Rescheduled(w) ==
  LET j == worker[w].job IN
    /\ jobs'[j].state = "delayed"
    /\ jobs'[j].until = now + BackoffDelay

\* C25 as stated: every failed attempt below 3 attempts re-schedules the job
\* with deadline = failure time + the fixed backoff, the same after the first
\* and the second failure, and the job is not dispatched before it.
C25_FailureReschedules ==
  [][/\ \A w \in Slots : SettlesRetry(w) => Rescheduled(w)
     /\ \A j \in JobIds : BackoffRespected(j)]_vars

\* C25: a failed attempt below 3 attempts that is recorded (the store is
\* reachable and the job holds its lock) re-schedules the job with
\* deadline = failure time + the fixed backoff, the same after the first and
\* the second failure, and the job is not dispatched before that deadline; a
\* failure that cannot be recorded leaves the job and its deadline as they
\* were.
C25_RecordedFailureReschedules ==
  [][/\ \A w \in Slots :
          SettlesRetry(w)
            => LET j == worker[w].job IN
               IF storeUp /\ jobs[j].state = "active" /\ jobs[j].lock
                 THEN Rescheduled(w)
                 ELSE jobs'[j] = jobs[j]
     /\ \A j \in JobIds : BackoffRespected(j)]_vars

\* the second failure of a job has just been recorded
C25_Witness ==
  \E j \in JobIds :
    /\ jobs[j].state = "delayed"
    /\ jobs[j].attemptsMade = 2
    /\ jobs[j].stalledCounter = 0
    /\ hist.runs[j] = 2
    /\ jobs[j].until = now + BackoffDelay

\* C26 as stated: in every reachable state at most one job is Active.
C26_OneActiveJob ==
  Cardinality({j \in JobIds : jobs[j].state = "active"}) <= 1

\* C26: the consumer processes one job at a time: at most one callback, and
\* so at most one deliver call, is in progress in the process; the store may
\* list more than one job as active when a crashed process left one behind.
C26_OneCallbackAtATime ==
  /\ Cardinality({w \in Slots : ~WorkerIdle(w)}) <= 1
  /\ Cardinality({j \in JobIds : Running(j)}) <= 1

\* the restarted consumer runs a job while the job its predecessor was
\* running is still listed as active
C26_Witness ==
  \E j, k \in JobIds :
    /\ j # k
    /\ jobs[j].state = "active"
    /\ ~Running(j)
    /\ jobs[k].state = "active"
    /\ Running(k)
    /\ hist.crashed

\* the failed set stays within the cap
C27_Retained == Cardinality(failedSet) <= RemoveOnFail

\* a job that enters the failed set is its newest member, and the members
\* that are purged for it are older than every member that is kept; nothing
\* is purged below the cap
C27_OldestFirst ==
  failedSet' # failedSet
    => /\ \E r \in failedSet' : /\ failedSet' \ failedSet = {r}
                                /\ \A q \in failedSet : q < r
       /\ \A r \in failedSet \ failedSet' : \A q \in failedSet' : r < q
       /\ Cardinality(failedSet') =
            (IF Cardinality(failedSet) < RemoveOnFail
               THEN Cardinality(failedSet) + 1 ELSE RemoveOnFail)

\* a completed job is gone from every list of the queue (state "completed"
\* is the removed job): no operation finds or changes it again, and it
\* takes no place in the failed set
C27_Step ==
  \A j \in JobIds :
    /\ jobs[j].state = "completed" => jobs'[j] = jobs[j]
    /\ (jobs[j].state # "completed" /\ jobs'[j].state = "completed")
         => failedSet' = failedSet

\* C27: retention is bounded: a completed job is removed from the store,
\* and the terminally failed jobs the store retains never exceed the cap of
\* 100, the oldest being purged first.
C27_BoundedRetention ==
  [][C27_Step /\ C27_OldestFirst /\ C27_Retained']_vars

\* the 101st failed job has pushed the oldest one out of the failed set
C27_Witness ==
  /\ failedSet = 2..(RemoveOnFail + 1)
  /\ \E j \in JobIds :
       jobs[j].state = "failed" /\ jobs[j].attemptsMade = Attempts

\* C28: the status endpoint is read-only: answering a request, with 200 or
\* with 500, it changes no quota counter, not the rotation offset and no job
\* state.
C28_Step ==
  statusRes' # statusRes
    => /\ statusRes'.status \in {200, 500}
       /\ statusRes'.status = 500 <=> ~storeUp
       /\ UNCHANGED <<sendgrid_count, gmail_count, currentGmailIndex, jobs,
                      failedSet, worker, nextReset, resetPc, rl>>

C28_StatusIsReadOnly == [][C28_Step]_vars

\* the endpoint has answered twice, the second time with 500, and the
\* counters are still absent from the store
C28_Witness ==
  /\ statusRes = [n |-> 2, status |-> 500]
  /\ sendgrid_count = Absent
  /\ \A i \in GmailIdx : gmail_count[i] = Absent

\* C29: the process ends without listening exactly when a configuration
\* value it uses is absent: start-up has ended in listening if every used
\* value is present, and otherwise in an exit, the process never having
\* listened or consumed.
C29_ChecksWhatIsUsed ==
  boot.pc \in {"listening", "exited", "threw"}
    => /\ (boot.pc = "listening") <=> (UsedVars \subseteq boot.env)
       /\ boot.pc # "listening" => ~procUp

\* slot w settles the increment that follows an accepted SendGrid send
SettlesPrimary(w) ==
  /\ worker[w].pc = "incrementSendGridCount"
  /\ worker'[w] # worker[w]
  /\ procUp'

\* C30: when the SendGrid counter is below its ceiling and the SendGrid send
\* succeeds, sendEmail returns having incremented only sendgrid_count: no
\* Gmail account is read or tried, no Gmail counter changes and
\* currentGmailIndex stays as it was.
C30_PrimarySuccessFrame ==
  [][\A w \in Slots :
       SettlesPrimary(w)
         => /\ worker'[w].pc = "returned"
            /\ sendgrid_count' = Incr(sendgrid_count)
            /\ gmail_count' = gmail_count
            /\ currentGmailIndex' = currentGmailIndex]_vars

\* slot w is inside the Gmail loop of sendEmail
InGmailLoop(w) ==
  worker[w].pc \in {"getGmailCount", "gmailSend", "incrementGmailCount"}

\* slot w settles the increment that follows an accepted Gmail send
SettlesSecondary(w) ==
  /\ worker[w].pc = "incrementGmailCount"
  /\ worker'[w] # worker[w]
  /\ procUp'

\* C31: one sendEmail call visits the Gmail accounts in ring order from the
\* current offset, each at most once, and stops at the first account whose
\* send succeeds, setting currentGmailIndex to that account's index; so it
\* makes at most 1 + N send attempts and terminates.
C31_RingStopsAtFirstSuccess ==
  [][\A w \in Slots :
       /\ InGmailLoop(w)
            => /\ worker[w].i < numGmail
               /\ worker[w].idx = (currentGmailIndex + worker[w].i) % numGmail
       /\ (InGmailLoop(w) /\ InGmailLoop(w)' /\ procUp')
            => worker'[w].i \in {worker[w].i, worker[w].i + 1}
       /\ SettlesSecondary(w)
            => /\ worker'[w].pc = "returned"
               /\ currentGmailIndex' = worker[w].idx]_vars

\* the ceiling of channel c
CeilingOf(c) == IF c = 0 THEN SendGridLimit ELSE DailyLimit

\* C32: with k sendEmail calls running against the same channel (the call
\* of this process and k - 1 sends of another instance), the channel's
\* counter exceeds its ceiling by at most k - 1; with the single worker alone
\* it never exceeds the ceiling.
C32_OvershootBounded ==
  \A c \in Channels :
    c <= numGmail
      => ParseCount(CounterOf(c)) <= CeilingOf(c) + hist.others[c]

\* two calls read the SendGrid counter one below the ceiling, both sent and
\* both charged: the counter is one over
C32_Witness ==
  /\ ParseCount(sendgrid_count) = SendGridLimit + 1
  /\ hist.others[0] = 1
  /\ hist.sends[1] = 1

\* the requests inside the middleware chain
InFlight == {r \in {req, peer} : r.pc # "none"}

\* C33: with several requests of one client inside the chain at once in one
\* hour bucket, and no store failure, every request gets its own INCR
\* result, which is its ordinal among the client's requests of the bucket,
\* and only requests with a result of at most 7 are admitted: at most 7 are
\* admitted in every interleaving.
C33_SevenUnderConcurrency ==
  ~hist.storeFailed =>
    /\ \A r \in InFlight :
         /\ r.n = r.ord
         /\ r.pc \in {"expire", "route"} => r.n <= RateLimit
         /\ r.pc = "ttl" => r.n > RateLimit
    /\ (req.pc # "none" /\ peer.pc # "none"
          /\ req.client = peer.client /\ req.hour = peer.hour)
         => req.n # peer.n
    /\ lastResponse.status \in {200, 400, 500, 503}
         => lastResponse.ord <= RateLimit

\* the seventh and the eighth request of a client are inside the chain
\* together: the seventh is admitted, the eighth is about to be denied
C33_Witness ==
  /\ ~hist.storeFailed
  /\ req.client = peer.client
  /\ req.hour = peer.hour
  /\ req.pc = "ttl"
  /\ req.n = RateLimit + 1
  /\ peer.pc = "route"
  /\ peer.n = RateLimit

\* C34: one sendEmail call has at most one send accepted, also when the
\* increment that follows the accepted send is rejected: once a channel has
\* accepted the message, the call sends it through no other channel.
C34_OneSendPerCall ==
  [][\A w \in Slots :
       (worker[w].accepted /\ worker'[w].job = worker[w].job)
         => hist'.sends[worker[w].job] = hist.sends[worker[w].job]]_vars

\* C35: with the single worker, no store failure and no crash, every
\* accepted send through a channel, by sendEmail or by the self-test
\* endpoint, has been charged to the channel's counter, but for the
\* increment in progress: the counter equals the accepted sends since the
\* last reset.
C35_CounterEqualsSends ==
  (~hist.storeFailed /\ ~hist.crashed /\ \A c \in Channels : other[c] = 0)
    => \A c \in Channels :
         hist.uncharged[c] + hist.tested[c] = PendingIncrement(c)

\* C36: a job is marked Completed only if a send of its message was accepted
\* during the attempt that completes it: the step that completes job j
\* settles a callback of j that returned after an accepted send.
C36_Step ==
  \A j \in JobIds :
    (jobs[j].state # "completed" /\ jobs'[j].state = "completed")
      => /\ hist.sends[j] >= 1
         /\ \E w \in Slots : /\ worker[w].job = j
                             /\ worker[w].pc = "returned"
                             /\ worker[w].accepted

C36_Sent ==
  \A j \in JobIds : jobs[j].state = "completed" => hist.sends[j] >= 1

C36_CompletedOnlyAfterSend == [][C36_Step /\ C36_Sent']_vars

\* a job whose first attempt failed without a send was completed by its
\* second attempt, which sent the message
C36_Witness ==
  \E j \in JobIds :
    /\ jobs[j].state = "completed"
    /\ jobs[j].attemptsMade = 1
    /\ hist.runs[j] = 2
    /\ hist.sends[j] = 1

\* C37: under fairness of the consumer and of time, and with the store
\* eventually available, every enqueued job eventually is Completed or
\* FailedTerminal: no job stays delayed, waiting or active forever.
C37_EveryJobEnds ==
  \A j \in JobIds :
    (jobs[j].state \in {"delayed", "wait", "active"})
      ~> (jobs[j].state \in {"completed", "failed"})

\* a job enqueued with a delay of a day has ended in the failed set after
\* three attempts and their two backoffs
C37_Witness ==
  \E j \in JobIds :
    /\ jobs[j].state = "failed"
    /\ jobs[j].attemptsMade = Attempts
    /\ Truthy(jobs[j].delay)
    /\ now >= jobs[j].timestamp + DayMs + 2 * BackoffDelay

\* the request in the limiter leaves the step that sets the expiry of the
\* key it created, and the process is still running
C38_Step ==
  (req.pc = "expire" /\ req'.pc # "expire" /\ procUp')
    => \A k \in rl' :
         (k.client = req.client /\ k.hour = req.hour)
           => /\ k.ttlSet
              /\ k.expireAt - now' <= ExpireSeconds * 1000

\* C38: once the admit call that created a rate-limit key has returned, the
\* key has an expiry of at most 3600 seconds, also when the expire call
\* failed after the increment succeeded: no key is left without a
\* time-to-live.
C38_CreatedKeyExpires == [][C38_Step]_vars

\* the route answers while the store does not answer the ping: 503, and no
\* job is created or changed
C39_Unavailable ==
  (Answers /\ ~storeUp)
    => /\ lastResponse'.status = 503
       /\ lastResponse'.jobId = 0
       /\ jobs' = jobs

\* a request enters the limiter while the store executes its INCR: the key
\* of its client and hour is one higher than before and the request holds
\* that value
C39_Charges ==
  (req.pc = "none" /\ req'.pc # "none" /\ storeUp)
    => /\ req'.n = CountOf(req'.client, req'.hour) + 1
       /\ \E k \in rl' : /\ k.client = req'.client
                         /\ k.hour = req'.hour
                         /\ k.count = req'.n

\* the request at the route holds the value its INCR returned, unless the
\* INCR itself failed and the catch of the limiter let it through
C39_ChargedUnlessIncrFailed ==
  (req.pc = "route" /\ req.n = 0) => req.caught

\* C39 (as amended): when the health check fails the route answers 503 and
\* enqueues no job; every request that reaches the route after the store
\* executed its INCR, one answered 400 or 503 included, has consumed one
\* unit of its client's hourly budget; a request reaches the route without
\* having consumed a unit only through the catch of the limiter.
C39_ChargedBeforeTheRoute ==
  [][C39_Unavailable /\ C39_Charges /\ C39_ChargedUnlessIncrFailed']_vars

\* C39 (as stated): every request that reaches the route has consumed one
\* unit of its client's hourly budget.
C39_EveryRequestCharged == req.pc = "route" => req.n >= 1

\* the store went down after the INCR of client "a"'s first request of the
\* hour: the request is answered 503, no job exists and the key counts it
C39_Witness ==
  /\ lastResponse.status = 503
  /\ lastResponse.ord = 1
  /\ ~storeUp
  /\ CountOf("a", 0) = 1
  /\ hist.arrivals = {[client |-> "a", hour |-> 0, k |-> 1]}
  /\ \A j \in JobIds : jobs[j].state = "none"

\* what the store holds for client a: the keys ratelimit:<a>:<hour>
OwnKeys(set, a) == {k \in set : k.client = a}

\* the value of client a's key of hour h, 0 when there is none
OwnCount(a, h) ==
  LET ks == {k \in OwnKeys(rl, a) : k.hour = h} IN
  IF ks = {} THEN 0 ELSE (CHOOSE k \in ks : TRUE).count

\* the client on whose behalf the request in the limiter acts in this step
Actor == IF req.pc = "none" THEN req'.client ELSE req.client

\* where a request goes after its INCR, given whether the store answered
\* and the value its own key had before
Decided(up, own) ==
  IF ~up THEN "route"
  ELSE IF own = 0 THEN "expire"
  ELSE IF own + 1 > RateLimit THEN "ttl"
  ELSE "route"

\* no step taken for another client changes anything client a's decisions
\* are computed from: as long as the clock stands, a's keys stay as they are
C40_OthersLeaveOwnKeys ==
  \A a \in Clients :
    (now' = now /\ Actor # a) => OwnKeys(rl', a) = OwnKeys(rl, a)

\* the decision for a request is computed from the key of its own client
\* and hour, the clock and the store's availability, and from nothing else
C40_DecidedByOwnKey ==
  /\ (req.pc = "none" /\ req'.pc # "none" /\ peer' = peer)
       => /\ req'.pc = Decided(storeUp,
                               OwnCount(req'.client, now \div HourMs))
          /\ storeUp => req'.n = OwnCount(req'.client, now \div HourMs) + 1
  /\ (req.pc = "expire" /\ req' # req /\ peer' = peer /\ procUp')
       => req'.pc = "route"
  /\ (req.pc = "ttl" /\ req' # req /\ peer' = peer /\ procUp')
       => IF storeUp THEN lastResponse'.status = 429 /\ req'.pc = "none"
                     ELSE lastResponse'.status = 0 /\ req'.pc = "route"
  /\ lastResponse'.status = 429 => req.pc = "ttl"

\* C40: the limiter's decision for one client is independent of the
\* requests of every other client: the admit/deny decision of a request is a
\* function of its own client's key, the clock and the store's availability,
\* and the requests of other clients never change that key, so two runs
\* that agree on client A's requests give A the same decisions.
C40_ClientsDoNotInterfere ==
  [][C40_OthersLeaveOwnKeys /\ C40_DecidedByOwnKey]_vars

\* client "a"'s eighth request of the hour is denied while a request of
\* client "b", counted in between, is still in flight
C40_Witness ==
  /\ req.client = "a"
  /\ req.pc = "ttl"
  /\ req.n = RateLimit + 1
  /\ peer.client = "b"
  /\ peer.pc # "none"
  /\ peer.n = 1
  /\ OwnCount("b", 0) = 1

====
